---- MODULE Spec2Model ----
(***************************************************************************)
(* sds011lib: driver of the SDS011 particulate matter sensor.              *)
(*                                                                         *)
(* The module models the low-level reader SDS011Reader, the two session    *)
(* readers SDS011QueryReader and SDS011ActiveReader, and the two serial    *)
(* devices the readers are run against: the emulator of the test suite     *)
(* (Sds011SerialEmulator) and a scripted SerialLike stream whose reads     *)
(* return the next scripted chunk.  Bytes are the integers 0..255, byte    *)
(* strings are sequences of bytes (1-based, where Python is 0-based).      *)
(***************************************************************************)
EXTENDS Integers, Sequences, FiniteSets, TLC

(***************************************************************************)
(* Bounds of the model.                                                    *)
(***************************************************************************)
\* longest script of the scripted stream, in chunks
MaxStream == 3
\* largest max_loop_count a reader over the scripted stream is built with
MaxLoop == 2
\* most unread frames in the emulator's response buffer when a command that
\* is answered is written
MaxBuf == 1
\* largest number of seconds the clock runs after the emulator was created
\* while calls are made
MaxSeconds == 1
\* largest number of seconds the emulator was left alone before the first
\* call
MaxIdle == 12

(***************************************************************************)
(* _constants.py                                                           *)
(***************************************************************************)
HEAD == 170
TAIL == 171
SUBMIT_TYPE == 180
ALL_SENSOR_ID == <<255, 255>>
ALL_SENSORS == ALL_SENSOR_ID

GENERAL_RESPONSE == 197
QUERY_RESPONSE == 192
ResponseType == {GENERAL_RESPONSE, QUERY_RESPONSE}

SET_REPORTING_MODE == 2
QUERY == 4
SET_DEVICE_ID == 5
SET_SLEEP == 6
SET_WORKING_PERIOD == 8
CHECK_FIRMWARE_VERSION == 7
Command == {SET_REPORTING_MODE, QUERY, SET_DEVICE_ID, SET_SLEEP,
            SET_WORKING_PERIOD, CHECK_FIRMWARE_VERSION}

\* OperationType
OP_QUERY == 0
OP_SET_MODE == 1
\* ReportingMode
ACTIVE == 0
QUERYING == 1
ReportingMode == {ACTIVE, QUERYING}
\* SleepState
SLEEP == 0
WAKE == 1
SleepState == {SLEEP, WAKE}

\* default of SDS011Reader.__init__(max_loop_count)
DEFAULT_MAX_LOOP_COUNT == 30
\* self.max_loop_count = 10 of SDS011ActiveReader.__init__, an attribute of
\* the SDS011ActiveReader that no method reads
ACTIVE_READER_MAX_LOOP_COUNT == 10

(***************************************************************************)
(* Byte strings.                                                           *)
(***************************************************************************)
RECURSIVE SumBytes(_)
SumBytes(data) == IF data = <<>> THEN 0 ELSE Head(data) + SumBytes(Tail(data))

\* b"\x00" * n
Zeros(n) == [i \in 1..n |-> 0]

\* data[a:b] of Python (0-based, b exclusive), clipped to the string
Slice(data, a, b) ==
    LET hi == IF b > Len(data) THEN Len(data) ELSE b
    IN IF a >= hi THEN <<>> ELSE SubSeq(data, a + 1, hi)

(***************************************************************************)
(* Response verification and parsing (sds011lib/__init__.py).              *)
(***************************************************************************)
\* The sum is reduced mod 255.
calc_checksum_mod_255(data) == SumBytes(data) % 255

\* _calc_checksum
calc_checksum(data) == SumBytes(data) % 256

\* Exchanged checks: the response class is compared before the checksum.
verify_read_response_class_first(r) ==
    IF r.head # HEAD THEN "IncorrectWrapperException"
    ELSE IF r.tail # TAIL THEN "IncorrectWrapperException"
    ELSE IF r.cmd_id # r.expected_response_type THEN "IncorrectCommandException"
    ELSE IF r.checksum # calc_checksum(r.payload) THEN "ChecksumFailedException"
    ELSE IF r.expected_response_type # QUERY_RESPONSE
            /\ r.payload[1] # r.expected_command_code
         THEN "IncorrectCommandCodeException"
    ELSE "ok"

\* The command code is checked whatever the response class.
verify_read_response_code_always(r) ==
    IF r.head # HEAD THEN "IncorrectWrapperException"
    ELSE IF r.tail # TAIL THEN "IncorrectWrapperException"
    ELSE IF r.checksum # calc_checksum(r.payload) THEN "ChecksumFailedException"
    ELSE IF r.cmd_id # r.expected_response_type THEN "IncorrectCommandException"
    ELSE IF r.payload[1] # r.expected_command_code
         THEN "IncorrectCommandCodeException"
    ELSE "ok"

\* The exception _verify_read_response raises, "ok" when it returns.
verify_read_response(r) ==
    IF r.head # HEAD THEN "IncorrectWrapperException"
    ELSE IF r.tail # TAIL THEN "IncorrectWrapperException"
    ELSE IF r.checksum # calc_checksum(r.payload) THEN "ChecksumFailedException"
    ELSE IF r.cmd_id # r.expected_response_type THEN "IncorrectCommandException"
    ELSE IF r.expected_response_type # QUERY_RESPONSE
            /\ r.payload[1] # r.expected_command_code
         THEN "IncorrectCommandCodeException"
    ELSE "ok"

\* The fields _parse_read_response slices out of a 10-byte string.
RawReadResponse(data, command_code, response_type) ==
    [head |-> data[1],
     cmd_id |-> data[2],
     payload |-> Slice(data, 2, 8),
     device_id |-> Slice(data, 6, 8),
     checksum |-> data[9],
     tail |-> data[10],
     expected_command_code |-> command_code,
     expected_response_type |-> response_type]

\* A string that is not 10 bytes long raises IncorrectCommandException.
parse_read_response_short_is_command(data, command_code, response_type) ==
    IF Len(data) # 10 THEN "IncorrectCommandException"
    ELSE verify_read_response(RawReadResponse(data, command_code, response_type))

\* The exception _parse_read_response raises, "ok" when it returns.
parse_read_response(data, command_code, response_type) ==
    IF Len(data) # 10 THEN "IncompleteReadException"
    ELSE verify_read_response(RawReadResponse(data, command_code, response_type))

\* The bytes are read with the most significant byte first.
int_from_bytes_big(data) ==
    LET value[i \in 0..Len(data)] ==
            IF i = 0 THEN 0 ELSE 256 * value[i - 1] + data[i]
    IN value[Len(data)]

\* int.from_bytes(data, byteorder="little")
int_from_bytes_little(data) ==
    LET value[i \in 0..Len(data)] ==
            IF i = 0 THEN 0 ELSE value[i - 1] + data[i] * 256 ^ (i - 1)
    IN value[Len(data)]

\* QueryResponse(pm25, pm10, device_id); pm25 and pm10 are kept in tenths,
\* the integers the code divides by 10
QueryResponse(pm25, pm10, device_id) == <<pm25, pm10, device_id>>

\* _parse_query_response: the exception raised, or "ok" and the QueryResponse
parse_query_response(data) ==
    LET outcome == parse_read_response(data, QUERY, QUERY_RESPONSE)
        raw_response == RawReadResponse(data, QUERY, QUERY_RESPONSE)
    IN IF outcome # "ok" THEN [outcome |-> outcome, response |-> <<>>]
       ELSE [outcome |-> "ok",
             response |->
                 QueryResponse(
                     int_from_bytes_little(Slice(raw_response.payload, 0, 2)),
                     int_from_bytes_little(Slice(raw_response.payload, 2, 4)),
                     raw_response.device_id)]

(***************************************************************************)
(* The serial device.  A device is a record                                *)
(*   kind            "emulator" (Sds011SerialEmulator) or "stream"         *)
(*   response_buffer the chunks still to be read, each the bytes one       *)
(*                   read(10) returns (the emulator only ever holds whole  *)
(*                   10-byte frames and is only ever read 10 bytes at a    *)
(*                   time)                                                 *)
(*   query_mode, device_id, sleep_state, working_period                    *)
(*                   the emulator's fields                                 *)
(*   seconds         seconds since the emulator's last_command_time        *)
(*   is_open         whether the last of open()/close() was open()         *)
(*   reads, writes   the read(10) calls and the byte strings written by    *)
(*                   the operation in progress                             *)
(*   calls           the calls the operation in progress has made on the   *)
(*                   device, in order: "write", "read", "close", "open"    *)
(*   read_sizes      the number of bytes each of its reads returned        *)
(***************************************************************************)
firmware_year == 1
firmware_month == 2
firmware_day == 3

read_checksum(data) == SumBytes(data) % 256

\* The response carries the id of all sensors, not the device's.
generate_read_all_sensors(d, response_type, cmd) ==
    LET cmd_and_id == cmd \o ALL_SENSORS
    IN <<HEAD, response_type>> \o cmd_and_id \o <<read_checksum(cmd_and_id), TAIL>>

generate_read(d, response_type, cmd) ==
    LET cmd_and_id == cmd \o d.device_id
    IN <<HEAD, response_type>> \o cmd_and_id \o <<read_checksum(cmd_and_id), TAIL>>

get_query_response(d) == generate_read(d, QUERY_RESPONSE, <<229, 16, 191, 20>>)

get_reporting_mode_response(d, reporting_mode, operation_type) ==
    generate_read(d, GENERAL_RESPONSE,
                  <<SET_REPORTING_MODE, operation_type, reporting_mode, 0>>)

get_device_id_response(d) ==
    generate_read(d, GENERAL_RESPONSE, <<SET_DEVICE_ID>> \o Zeros(3))

\* The sleep state is put before the operation type.
set_sleep_response_swapped(d, sleep_state, operation_type) ==
    generate_read(d, GENERAL_RESPONSE, <<SET_SLEEP, sleep_state, operation_type, 0>>)

set_sleep_response(d, sleep_state, operation_type) ==
    generate_read(d, GENERAL_RESPONSE, <<SET_SLEEP, operation_type, sleep_state, 0>>)

\* The response carries the period the device had before the command.
get_working_period_response_stored(d, working_period, operation_type) ==
    generate_read(d, GENERAL_RESPONSE,
                  <<SET_WORKING_PERIOD, operation_type, d.working_period, 0>>)

get_working_period_response(d, working_period, operation_type) ==
    generate_read(d, GENERAL_RESPONSE,
                  <<SET_WORKING_PERIOD, operation_type, working_period, 0>>)

check_firmware_response(d) ==
    generate_read(d, GENERAL_RESPONSE,
                  <<CHECK_FIRMWARE_VERSION, firmware_year, firmware_month, firmware_day>>)

\* range(0, max(seconds_since_last_command, 1)) query responses are appended
inject_active_mode_reads(d) ==
    LET n == IF d.seconds > 1 THEN d.seconds ELSE 1
    IN [d EXCEPT !.response_buffer = @ \o [i \in 1..n |-> get_query_response(d)]]

\* The response is put in front of the unread frames.
add_to_response_buffer_front(d, data) ==
    LET d1 == IF d.query_mode = ACTIVE THEN inject_active_mode_reads(d) ELSE d
    IN [d1 EXCEPT !.response_buffer = <<data>> \o @]

add_to_response_buffer(d, data) ==
    LET d1 == IF d.query_mode = ACTIVE THEN inject_active_mode_reads(d) ELSE d
    IN [d1 EXCEPT !.response_buffer = @ \o <<data>>]

\* Sds011SerialEmulator.__init__: factory defaults
EmulatorInit ==
    [kind |-> "emulator", response_buffer |-> <<>>, query_mode |-> ACTIVE,
     device_id |-> <<1, 1>>, sleep_state |-> WAKE, working_period |-> 0,
     seconds |-> 0, is_open |-> TRUE, reads |-> 0, writes |-> <<>>,
     calls |-> <<>>, read_sizes |-> <<>>]

\* parse_write_data: raw_body_data = data[2:15], command = data[2:3]
raw_body_data(data) == Slice(data, 2, 15)

\* The reporting mode is taken from the command whatever its operation type.
emulator_dispatch_mode_always(d, data) ==
    LET body == raw_body_data(data)
        command == data[3]
        operation_type == body[2]
    IN IF command = SET_REPORTING_MODE THEN
            IF operation_type = OP_SET_MODE
            THEN [add_to_response_buffer(d,
                      get_reporting_mode_response(d, body[3], operation_type))
                    EXCEPT !.query_mode = body[3]]
            ELSE [add_to_response_buffer(d,
                      get_reporting_mode_response(d, d.query_mode, operation_type))
                    EXCEPT !.query_mode = body[3]]
       ELSE IF command = QUERY THEN
            add_to_response_buffer(d, get_query_response(d))
       ELSE IF command = SET_DEVICE_ID THEN
            LET d1 == [d EXCEPT !.device_id = Slice(body, 11, 13)]
            IN add_to_response_buffer(d1, get_device_id_response(d1))
       ELSE IF command = SET_SLEEP THEN
            IF operation_type = OP_SET_MODE
            THEN [add_to_response_buffer(d,
                      set_sleep_response(d, body[3], operation_type))
                    EXCEPT !.sleep_state = body[3]]
            ELSE add_to_response_buffer(d,
                      set_sleep_response(d, d.sleep_state, operation_type))
       ELSE IF command = SET_WORKING_PERIOD THEN
            IF operation_type = OP_SET_MODE
            THEN [add_to_response_buffer(d,
                      get_working_period_response(d, body[3], operation_type))
                    EXCEPT !.working_period = body[3]]
            ELSE add_to_response_buffer(d,
                      get_working_period_response(d, d.working_period, operation_type))
       ELSE IF command = CHECK_FIRMWARE_VERSION THEN
            add_to_response_buffer(d, check_firmware_response(d))
       ELSE d

\* Sds011SerialEmulator.write, past the sleep test: the command is carried out
emulator_dispatch(d, data) ==
    LET body == raw_body_data(data)
        command == data[3]
        operation_type == body[2]
    IN IF command = SET_REPORTING_MODE THEN
            IF operation_type = OP_SET_MODE
            THEN [add_to_response_buffer(d,
                      get_reporting_mode_response(d, body[3], operation_type))
                    EXCEPT !.query_mode = body[3]]
            ELSE add_to_response_buffer(d,
                      get_reporting_mode_response(d, d.query_mode, operation_type))
       ELSE IF command = QUERY THEN
            add_to_response_buffer(d, get_query_response(d))
       ELSE IF command = SET_DEVICE_ID THEN
            LET d1 == [d EXCEPT !.device_id = Slice(body, 11, 13)]
            IN add_to_response_buffer(d1, get_device_id_response(d1))
       ELSE IF command = SET_SLEEP THEN
            IF operation_type = OP_SET_MODE
            THEN [add_to_response_buffer(d,
                      set_sleep_response(d, body[3], operation_type))
                    EXCEPT !.sleep_state = body[3]]
            ELSE add_to_response_buffer(d,
                      set_sleep_response(d, d.sleep_state, operation_type))
       ELSE IF command = SET_WORKING_PERIOD THEN
            IF operation_type = OP_SET_MODE
            THEN [add_to_response_buffer(d,
                      get_working_period_response(d, body[3], operation_type))
                    EXCEPT !.working_period = body[3]]
            ELSE add_to_response_buffer(d,
                      get_working_period_response(d, d.working_period, operation_type))
       ELSE IF command = CHECK_FIRMWARE_VERSION THEN
            add_to_response_buffer(d, check_firmware_response(d))
       ELSE d

\* No command is ignored.
ignores_no_command(d, command) == FALSE

\* Asleep, only the commands that read data or the firmware version are
\* ignored.
ignores_only_reads(d, command) ==
    d.sleep_state = SLEEP /\ command \in {QUERY, CHECK_FIRMWARE_VERSION}

\* Asleep, the sleep command is ignored as well.
ignores_every_command(d, command) == d.sleep_state = SLEEP

\* The device ignores commands in sleep mode, unless it is a sleep command.
ignores_command(d, command) == d.sleep_state = SLEEP /\ command # SET_SLEEP

\* Sds011SerialEmulator.write
emulator_write(d, data) ==
    IF ignores_command(d, data[3]) THEN d ELSE emulator_dispatch(d, data)

\* The sleep state is not looked at before query responses are injected.
emulator_read_asleep_too(d) ==
    LET d1 == IF Len(d.response_buffer) = 0 /\ d.query_mode = ACTIVE
              THEN inject_active_mode_reads(d) ELSE d
    IN IF d1.response_buffer = <<>>
       THEN [d |-> d1, output |-> <<>>]
       ELSE [d |-> [d1 EXCEPT !.response_buffer = Tail(@)],
             output |-> Head(d1.response_buffer)]

\* Sds011SerialEmulator.read(10): the device after the read and the bytes read
emulator_read(d) ==
    LET d1 == IF Len(d.response_buffer) = 0 /\ d.query_mode = ACTIVE
                 /\ d.sleep_state = WAKE
              THEN inject_active_mode_reads(d) ELSE d
    IN IF d1.response_buffer = <<>>
       THEN [d |-> d1, output |-> <<>>]
       ELSE [d |-> [d1 EXCEPT !.response_buffer = Tail(@)],
             output |-> Head(d1.response_buffer)]

\* SerialLike.read(10) of the scripted stream: the next chunk, nothing when
\* the script is exhausted
stream_read(d) ==
    IF d.response_buffer = <<>>
    THEN [d |-> d, output |-> <<>>]
    ELSE [d |-> [d EXCEPT !.response_buffer = Tail(@)],
          output |-> Head(d.response_buffer)]

\* self.ser.write(data)
ser_write(d, data) ==
    LET d1 == IF d.kind = "emulator" THEN emulator_write(d, data) ELSE d
    IN [d1 EXCEPT !.writes = Append(@, data), !.calls = Append(@, "write")]

\* self.ser.read(10); read_sizes keeps the number of bytes each read returned
ser_read(d) ==
    LET r == IF d.kind = "emulator" THEN emulator_read(d) ELSE stream_read(d)
    IN [d |-> [r.d EXCEPT !.reads = @ + 1, !.calls = Append(@, "read"),
                          !.read_sizes = Append(@, Len(r.output))],
        output |-> r.output]

\* Sds011SerialEmulator.close resets the response buffer
ser_close(d) ==
    [d EXCEPT !.is_open = FALSE,
              !.response_buffer = IF d.kind = "emulator" THEN <<>> ELSE @,
              !.calls = Append(@, "close")]

\* Sds011SerialEmulator.open is a no-op
ser_open(d) == [d EXCEPT !.is_open = TRUE, !.calls = Append(@, "open")]

(***************************************************************************)
(* SDS011Reader.  Every method is an operator from the device before the   *)
(* call to a result: the device after it, the exception raised ("ok" when  *)
(* the call returns), the bytes returned, and for a                        *)
(* MissingResponseException its iteration_count and expected_command.      *)
(***************************************************************************)
Result(d, outcome, response, iteration_count, expected_command) ==
    [d |-> d, outcome |-> outcome, response |-> response,
     iteration_count |-> iteration_count, expected_command |-> expected_command]

Returned(d) == Result(d, "ok", <<>>, 0, 0)
Raised(d, exception) == Result(d, exception, <<>>, 0, 0)

\* The sum is not reduced mod 256.
cmd_checksum_no_mod(data) == SumBytes(data)

\* SDS011Reader._cmd_checksum, for a 15-byte string
cmd_checksum(data) == SumBytes(data) % 256

\* The serial device is closed and opened again after the write.
send_command_reopens(d, cmd, sleep) ==
    IF Len(cmd) # 15 THEN Raised(d, "AttributeError")
    ELSE LET full_command == <<HEAD, SUBMIT_TYPE>> \o cmd \o <<cmd_checksum(cmd)>>
                             \o <<TAIL>>
         IN IF Len(full_command) # 19 THEN Raised(d, "Exception")
            ELSE Returned([ser_open(ser_close(ser_write(d, full_command)))
                              EXCEPT !.seconds = @ + sleep])

\* SDS011Reader._send_command; time.sleep(send_command_sleep) moves the clock
send_command(d, cmd, sleep) ==
    IF Len(cmd) # 15 THEN Raised(d, "AttributeError")
    ELSE LET full_command == <<HEAD, SUBMIT_TYPE>> \o cmd \o <<cmd_checksum(cmd)>>
                             \o <<TAIL>>
         IN IF Len(full_command) # 19 THEN Raised(d, "Exception")
            ELSE Returned([ser_write(d, full_command) EXCEPT !.seconds = @ + sleep])

\* One read too few: the scan gives up when the next loop_count reaches the
\* maximum.
gives_up_early(loop_count, max_loop_count) == loop_count + 1 >= max_loop_count

\* One read too many: the scan gives up when loop_count is past the maximum.
gives_up_late(loop_count, max_loop_count) == loop_count > max_loop_count

\* The scan gives up when loop_count reaches twice the maximum.
gives_up_at_twice(loop_count, max_loop_count) == loop_count >= 2 * max_loop_count

\* if loop_count >= self.max_loop_count
gives_up(loop_count, max_loop_count) == loop_count >= max_loop_count

\* Every exception of the parse is caught.
is_skipped_always(exception) == TRUE

\* except (IncorrectCommandException, IncorrectCommandCodeException): pass
is_skipped(exception) ==
    exception \in {"IncorrectCommandException", "IncorrectCommandCodeException"}

\* SDS011Reader._read_until_response, from the given loop_count on
RECURSIVE read_until_response_loop(_, _, _, _, _)
read_until_response_loop(d, expected_command, response_type, maximum, loop_count) ==
    LET r == ser_read(d)
        parsed == parse_read_response(r.output, expected_command, response_type)
    IN IF r.output = <<>>
       THEN Raised(r.d, "IncompleteReadException")
       ELSE IF parsed = "ok"
       THEN Result(r.d, "ok", r.output, 0, 0)
       ELSE IF ~is_skipped(parsed)
       THEN Raised(r.d, parsed)
       ELSE IF gives_up(loop_count, maximum)
       THEN Result(r.d, "MissingResponseException", <<>>, loop_count,
                   expected_command)
       ELSE read_until_response_loop(r.d, expected_command, response_type,
                                     maximum, loop_count + 1)

\* SDS011Reader._read_until_response
read_until_response(d, expected_command, response_type, max_loop_count) ==
    read_until_response_loop(d, expected_command, response_type, max_loop_count, 0)

\* request_data
request_data_cmd(device_id) == <<QUERY>> \o Zeros(12) \o device_id

\* request_reporting_mode
request_reporting_mode_cmd(device_id) ==
    <<SET_REPORTING_MODE, OP_QUERY, ACTIVE>> \o Zeros(10) \o device_id

\* _set_reporting_mode
set_reporting_mode_cmd(reporting_mode, device_id) ==
    <<SET_REPORTING_MODE, OP_SET_MODE, reporting_mode>> \o Zeros(10) \o device_id

\* The mode is read back after the command, and what the scan raises is
\* raised.
set_reporting_mode_read_back(d, reporting_mode, device_id, sleep) ==
    LET w == send_command(d, set_reporting_mode_cmd(reporting_mode, device_id), sleep)
    IN IF w.outcome # "ok" THEN w
       ELSE LET r == read_until_response(w.d, SET_REPORTING_MODE, GENERAL_RESPONSE,
                                         DEFAULT_MAX_LOOP_COUNT)
            IN IF r.outcome = "ok" THEN Returned(r.d) ELSE r

\* SDS011Reader._set_reporting_mode: the command is sent, nothing else
set_reporting_mode(d, reporting_mode, device_id, sleep) ==
    send_command(d, set_reporting_mode_cmd(reporting_mode, device_id), sleep)

\* request_sleep_state
request_sleep_state_cmd(device_id) ==
    <<SET_SLEEP, OP_QUERY, 0>> \o Zeros(10) \o device_id

\* set_sleep_state
set_sleep_state_cmd(state, device_id) ==
    <<SET_SLEEP, OP_SET_MODE, state>> \o Zeros(10) \o device_id

\* request_working_period
request_working_period_cmd(device_id) ==
    <<SET_WORKING_PERIOD, OP_QUERY>> \o Zeros(11) \o device_id

\* request_firmware_version
request_firmware_version_cmd(device_id) ==
    <<CHECK_FIRMWARE_VERSION>> \o Zeros(12) \o device_id

\* The range test is off by one at its upper end.
working_period_invalid_from_30(working_period) ==
    working_period < 0 \/ working_period >= 30

\* if working_period < 0 or working_period > 30
working_period_invalid(working_period) ==
    working_period < 0 \/ working_period > 30

\* SDS011Reader.set_working_period
set_working_period(d, working_period, device_id, sleep) ==
    IF working_period_invalid(working_period) THEN Raised(d, "AttributeError")
    ELSE send_command(d, <<SET_WORKING_PERIOD, OP_SET_MODE, working_period>>
                         \o Zeros(10) \o device_id, sleep)

\* The lengths are not tested.
device_id_invalid_never(device_id, target_device_id) == FALSE

\* if len(device_id) != 2 or len(target_device_id) != 2
device_id_invalid(device_id, target_device_id) ==
    Len(device_id) # 2 \/ Len(target_device_id) # 2

\* SDS011Reader.set_device_id
set_device_id(d, device_id, target_device_id, sleep) ==
    IF device_id_invalid(device_id, target_device_id)
    THEN Raised(d, "AttributeError")
    ELSE send_command(d, <<SET_DEVICE_ID>> \o Zeros(10) \o device_id
                         \o target_device_id, sleep)

\* SDS011Reader.safe_wake: wake, then one scan whose IncompleteReadException
\* is passed over
safe_wake(d, device_id, sleep, max_loop_count) ==
    LET w == send_command(d, set_sleep_state_cmd(WAKE, device_id), sleep)
        r == read_until_response(w.d, SET_SLEEP, GENERAL_RESPONSE, max_loop_count)
    IN IF w.outcome # "ok" THEN w
       ELSE IF r.outcome \in {"ok", "IncompleteReadException"} THEN Returned(r.d)
       ELSE r

(***************************************************************************)
(* State.                                                                  *)
(***************************************************************************)
VARIABLES
    ser,                \* the serial device of the reader: "emulator" or "stream"
    response_buffer,    \* Sds011SerialEmulator.response_buffer / the script left
    query_mode,         \* Sds011SerialEmulator.query_mode
    device_id,          \* Sds011SerialEmulator.device_id
    sleep_state,        \* Sds011SerialEmulator.sleep_state
    working_period,     \* Sds011SerialEmulator.working_period
    seconds,            \* seconds since Sds011SerialEmulator.last_command_time
    is_open,            \* the serial device was opened last, not closed
    reader,             \* the class of the reader in use
    max_loop_count,     \* SDS011Reader.max_loop_count
    send_command_sleep, \* SDS011Reader.send_command_sleep
    last                \* the last call: its name, argument, result and I/O

vars == <<ser, response_buffer, query_mode, device_id, sleep_state,
          working_period, seconds, is_open, reader, max_loop_count,
          send_command_sleep, last>>

\* The device at the start of a call.
Dev ==
    [kind |-> ser, response_buffer |-> response_buffer, query_mode |-> query_mode,
     device_id |-> device_id, sleep_state |-> sleep_state,
     working_period |-> working_period, seconds |-> seconds,
     is_open |-> is_open, reads |-> 0, writes |-> <<>>, calls |-> <<>>,
     read_sizes |-> <<>>]

NoCall ==
    [op |-> "none", arg |-> <<>>, outcome |-> "ok", response |-> <<>>,
     iteration_count |-> 0, expected_command |-> 0, reads |-> 0,
     writes |-> <<>>, calls |-> <<>>, read_sizes |-> <<>>]

\* The call op(arg) with result res is made: the device becomes res.d.
Call(op, arg, res) ==
    /\ res.d.seconds > MaxSeconds => res.d.seconds = seconds
    /\ Len(res.d.response_buffer) > Len(response_buffer)
       => Len(response_buffer) <= MaxBuf \/ res.d.writes = <<>>
    /\ response_buffer' = res.d.response_buffer
    /\ query_mode' = res.d.query_mode
    /\ device_id' = res.d.device_id
    /\ sleep_state' = res.d.sleep_state
    /\ working_period' = res.d.working_period
    /\ seconds' = res.d.seconds
    /\ is_open' = res.d.is_open
    /\ last' = [op |-> op, arg |-> arg, outcome |-> res.outcome,
                response |-> res.response,
                iteration_count |-> res.iteration_count,
                expected_command |-> res.expected_command,
                reads |-> res.d.reads, writes |-> res.d.writes,
                calls |-> res.d.calls, read_sizes |-> res.d.read_sizes]
    /\ UNCHANGED <<ser, max_loop_count, send_command_sleep>>

\* The call op(arg) of a reader that is already built.
MethodCall(op, arg, res) == Call(op, arg, res) /\ UNCHANGED reader

\* Arguments the calls are made with.
WorkingPeriods == {-1, 0, 30, 31}
DeviceIdPairs ==
    {<<<<187, 170>>, ALL_SENSORS>>, <<<<187, 170, 66>>, ALL_SENSORS>>,
     <<<<187, 170>>, <<255>>>>, <<<<187>>, <<255, 255, 255>>>>}


(***************************************************************************)
(* The methods of SDS011Reader.  They are called while the port is open:   *)
(* between close() and open() nothing is sent or read.                     *)
(***************************************************************************)
request_data ==
    /\ reader = "SDS011Reader" /\ is_open
    /\ MethodCall("request_data", <<>>,
            send_command(Dev, request_data_cmd(ALL_SENSORS), send_command_sleep))

query_data ==
    /\ reader = "SDS011Reader" /\ is_open
    /\ MethodCall("query_data", <<>>,
            read_until_response(Dev, QUERY, QUERY_RESPONSE, max_loop_count))

request_reporting_mode ==
    /\ reader = "SDS011Reader" /\ is_open
    /\ MethodCall("request_reporting_mode", <<>>,
            send_command(Dev, request_reporting_mode_cmd(ALL_SENSORS),
                         send_command_sleep))

query_reporting_mode ==
    /\ reader = "SDS011Reader" /\ is_open
    /\ MethodCall("query_reporting_mode", <<>>,
            read_until_response(Dev, SET_REPORTING_MODE, GENERAL_RESPONSE,
                                max_loop_count))

set_active_mode ==
    /\ reader = "SDS011Reader" /\ is_open
    /\ MethodCall("set_active_mode", <<>>,
            set_reporting_mode(Dev, ACTIVE, ALL_SENSORS, send_command_sleep))

set_query_mode ==
    /\ reader = "SDS011Reader" /\ is_open
    /\ MethodCall("set_query_mode", <<>>,
            set_reporting_mode(Dev, QUERYING, ALL_SENSORS, send_command_sleep))

request_sleep_state ==
    /\ reader = "SDS011Reader" /\ is_open
    /\ MethodCall("request_sleep_state", <<>>,
            send_command(Dev, request_sleep_state_cmd(ALL_SENSORS),
                         send_command_sleep))

query_sleep_state ==
    /\ reader = "SDS011Reader" /\ is_open
    /\ MethodCall("query_sleep_state", <<>>,
            read_until_response(Dev, SET_SLEEP, GENERAL_RESPONSE, max_loop_count))

\* sleep() and wake() are set_sleep_state(SLEEP) and set_sleep_state(WAKE)
set_sleep_state ==
    /\ reader = "SDS011Reader" /\ is_open
    /\ \E state \in SleepState :
          MethodCall("set_sleep_state", <<state>>,
               send_command(Dev, set_sleep_state_cmd(state, ALL_SENSORS),
                            send_command_sleep))

safe_wake_call ==
    /\ reader = "SDS011Reader" /\ is_open
    /\ MethodCall("safe_wake", <<>>,
            safe_wake(Dev, ALL_SENSORS, send_command_sleep, max_loop_count))

set_device_id_call ==
    /\ reader = "SDS011Reader" /\ is_open
    /\ \E ids \in DeviceIdPairs :
          MethodCall("set_device_id", ids,
               set_device_id(Dev, ids[1], ids[2], send_command_sleep))

query_device_id ==
    /\ reader = "SDS011Reader" /\ is_open
    /\ MethodCall("query_device_id", <<>>,
            read_until_response(Dev, SET_DEVICE_ID, GENERAL_RESPONSE,
                                max_loop_count))

request_working_period ==
    /\ reader = "SDS011Reader" /\ is_open
    /\ MethodCall("request_working_period", <<>>,
            send_command(Dev, request_working_period_cmd(ALL_SENSORS),
                         send_command_sleep))

query_working_period ==
    /\ reader = "SDS011Reader" /\ is_open
    /\ MethodCall("query_working_period", <<>>,
            read_until_response(Dev, SET_WORKING_PERIOD, GENERAL_RESPONSE,
                                max_loop_count))

set_working_period_call ==
    /\ reader = "SDS011Reader" /\ is_open
    /\ \E period \in WorkingPeriods :
          MethodCall("set_working_period", <<period>>,
               set_working_period(Dev, period, ALL_SENSORS, send_command_sleep))

request_firmware_version ==
    /\ reader = "SDS011Reader" /\ is_open
    /\ MethodCall("request_firmware_version", <<>>,
            send_command(Dev, request_firmware_version_cmd(ALL_SENSORS),
                         send_command_sleep))

query_firmware_version ==
    /\ reader = "SDS011Reader" /\ is_open
    /\ MethodCall("query_firmware_version", <<>>,
            read_until_response(Dev, CHECK_FIRMWARE_VERSION, GENERAL_RESPONSE,
                                max_loop_count))

\* _send_command(cmd) with a body of 14, 15 or 16 bytes
CommandBodies == {Zeros(14), request_data_cmd(ALL_SENSORS), Zeros(16)}

send_command_call ==
    /\ reader = "SDS011Reader" /\ is_open
    /\ \E cmd \in CommandBodies :
          MethodCall("_send_command", <<cmd>>,
               send_command(Dev, cmd, send_command_sleep))

\* reader.ser.close()
close ==
    /\ reader = "SDS011Reader"
    /\ MethodCall("close", <<>>, Returned(ser_close(Dev)))

\* reader.ser.open()
open ==
    /\ reader = "SDS011Reader"
    /\ MethodCall("open", <<>>, Returned(ser_open(Dev)))

\* A second passes.
Tick ==
    /\ seconds < MaxSeconds
    /\ seconds' = seconds + 1
    /\ UNCHANGED <<ser, response_buffer, query_mode, device_id, sleep_state,
                   working_period, is_open, reader, max_loop_count,
                   send_command_sleep, last>>

\* The methods that read a response.
QueryNext ==
    \/ query_data \/ query_reporting_mode \/ query_sleep_state
    \/ query_device_id \/ query_working_period \/ query_firmware_version

ReaderNext ==
    \/ QueryNext
    \/ request_data \/ request_reporting_mode
    \/ set_active_mode \/ set_query_mode
    \/ request_sleep_state \/ set_sleep_state
    \/ safe_wake_call
    \/ set_device_id_call
    \/ request_working_period \/ set_working_period_call
    \/ request_firmware_version
    \/ send_command_call

(***************************************************************************)
(* Spec: an SDS011Reader over the emulator, as the tests build it.         *)
(***************************************************************************)
Init ==
    /\ ser = "emulator"
    /\ response_buffer = EmulatorInit.response_buffer
    /\ query_mode = EmulatorInit.query_mode
    /\ device_id = EmulatorInit.device_id
    /\ sleep_state = EmulatorInit.sleep_state
    /\ working_period = EmulatorInit.working_period
    /\ seconds = EmulatorInit.seconds
    /\ is_open = EmulatorInit.is_open
    /\ reader = "SDS011Reader"
    /\ max_loop_count = MaxLoop
    /\ send_command_sleep = 0
    /\ last = NoCall

Next == ReaderNext \/ close \/ open \/ Tick

Spec == Init /\ [][Next]_vars

(***************************************************************************)
(* SDS011QueryReader and SDS011ActiveReader.                               *)
(***************************************************************************)
\* The request w was sent; the response to the command is then scanned for.
then_query(w, expected_command, response_type, maximum) ==
    IF w.outcome # "ok" THEN w
    ELSE read_until_response(w.d, expected_command, response_type, maximum)

\* The device is not woken first.
query_reader_init_no_wake(d, sleep, maximum) ==
    set_reporting_mode(d, QUERYING, ALL_SENSORS, sleep)

\* SDS011QueryReader.__init__: safe_wake(), then set_query_mode()
query_reader_init(d, sleep, maximum) ==
    LET w == safe_wake(d, ALL_SENSORS, sleep, maximum)
    IN IF w.outcome # "ok" THEN w
       ELSE set_reporting_mode(w.d, QUERYING, ALL_SENSORS, sleep)

\* The serial device is left open.
active_reader_init_left_open(d, sleep, maximum) ==
    LET w == safe_wake(d, ALL_SENSORS, sleep, maximum)
    IN IF w.outcome # "ok" THEN w
       ELSE set_reporting_mode(w.d, ACTIVE, ALL_SENSORS, sleep)

\* SDS011ActiveReader.__init__: safe_wake(), set_active_mode(), ser_dev.close()
active_reader_init(d, sleep, maximum) ==
    LET w == safe_wake(d, ALL_SENSORS, sleep, maximum)
        m == set_reporting_mode(w.d, ACTIVE, ALL_SENSORS, sleep)
    IN IF w.outcome # "ok" THEN w
       ELSE IF m.outcome # "ok" THEN m
       ELSE Returned(ser_close(m.d))

\* The device is closed only when the body returns.
connect_on_return(res) ==
    IF res.outcome = "ok" THEN [res EXCEPT !.d = ser_close(@)] ELSE res

\* SDS011ActiveReader._connect: the device is closed when the body is left
connect(res) == [res EXCEPT !.d = ser_close(@)]

\* The arguments the session methods are called with.
SessionDeviceIds == {<<18, 35>>, <<187>>}
SessionWorkingPeriods == {20, 31}

SDS011QueryReader_init ==
    /\ reader = "none"
    /\ LET res == query_reader_init(Dev, send_command_sleep, max_loop_count)
       IN /\ Call("SDS011QueryReader", <<>>, res)
          /\ reader' = IF res.outcome = "ok" THEN "SDS011QueryReader" ELSE reader

SDS011ActiveReader_init ==
    /\ reader = "none"
    /\ LET res == active_reader_init(Dev, send_command_sleep, max_loop_count)
       IN /\ Call("SDS011ActiveReader", <<>>, res)
          /\ reader' = IF res.outcome = "ok" THEN "SDS011ActiveReader" ELSE reader

\* query(): SDS011QueryReader requests and reads, SDS011ActiveReader only reads
query ==
    \/ /\ reader = "SDS011QueryReader"
       /\ MethodCall("query", <<>>,
               then_query(send_command(Dev, request_data_cmd(ALL_SENSORS),
                                       send_command_sleep),
                          QUERY, QUERY_RESPONSE, max_loop_count))
    \/ /\ reader = "SDS011ActiveReader"
       /\ MethodCall("query", <<>>,
               connect(read_until_response(ser_open(Dev), QUERY, QUERY_RESPONSE,
                                           max_loop_count)))

\* SDS011QueryReader.get_reporting_mode
get_reporting_mode ==
    /\ reader = "SDS011QueryReader"
    /\ MethodCall("get_reporting_mode", <<>>,
            then_query(send_command(Dev, request_reporting_mode_cmd(ALL_SENSORS),
                                    send_command_sleep),
                       SET_REPORTING_MODE, GENERAL_RESPONSE, max_loop_count))

\* SDS011QueryReader.get_sleep_state
get_sleep_state ==
    /\ reader = "SDS011QueryReader"
    /\ MethodCall("get_sleep_state", <<>>,
            then_query(send_command(Dev, request_sleep_state_cmd(ALL_SENSORS),
                                    send_command_sleep),
                       SET_SLEEP, GENERAL_RESPONSE, max_loop_count))

\* sleep() of the reader in use
sleep ==
    \/ /\ reader = "SDS011QueryReader"
       /\ MethodCall("sleep", <<>>,
               then_query(send_command(Dev, set_sleep_state_cmd(SLEEP, ALL_SENSORS),
                                       send_command_sleep),
                          SET_SLEEP, GENERAL_RESPONSE, max_loop_count))
    \/ /\ reader = "SDS011ActiveReader"
       /\ MethodCall("sleep", <<>>,
               connect(then_query(send_command(ser_open(Dev),
                                               set_sleep_state_cmd(SLEEP, ALL_SENSORS),
                                               send_command_sleep),
                                  SET_SLEEP, GENERAL_RESPONSE, max_loop_count)))

\* wake() of the reader in use
wake ==
    \/ /\ reader = "SDS011QueryReader"
       /\ MethodCall("wake", <<>>,
               then_query(send_command(Dev, set_sleep_state_cmd(WAKE, ALL_SENSORS),
                                       send_command_sleep),
                          SET_SLEEP, GENERAL_RESPONSE, max_loop_count))
    \/ /\ reader = "SDS011ActiveReader"
       /\ MethodCall("wake", <<>>,
               connect(then_query(send_command(ser_open(Dev),
                                               set_sleep_state_cmd(WAKE, ALL_SENSORS),
                                               send_command_sleep),
                                  SET_SLEEP, GENERAL_RESPONSE, max_loop_count)))

\* set_device_id(device_id) of the reader in use
session_set_device_id ==
    \E id \in SessionDeviceIds :
        \/ /\ reader = "SDS011QueryReader"
           /\ MethodCall("set_device_id", <<id, ALL_SENSORS>>,
                   then_query(set_device_id(Dev, id, ALL_SENSORS, send_command_sleep),
                              SET_DEVICE_ID, GENERAL_RESPONSE, max_loop_count))
        \/ /\ reader = "SDS011ActiveReader"
           /\ MethodCall("set_device_id", <<id, ALL_SENSORS>>,
                   connect(then_query(set_device_id(ser_open(Dev), id, ALL_SENSORS,
                                                    send_command_sleep),
                                      SET_DEVICE_ID, GENERAL_RESPONSE,
                                      max_loop_count)))

\* SDS011QueryReader.get_working_period
get_working_period ==
    /\ reader = "SDS011QueryReader"
    /\ MethodCall("get_working_period", <<>>,
            then_query(send_command(Dev, request_working_period_cmd(ALL_SENSORS),
                                    send_command_sleep),
                       SET_WORKING_PERIOD, GENERAL_RESPONSE, max_loop_count))

\* set_working_period(working_period) of the reader in use
session_set_working_period ==
    \E period \in SessionWorkingPeriods :
        \/ /\ reader = "SDS011QueryReader"
           /\ MethodCall("set_working_period", <<period>>,
                   then_query(set_working_period(Dev, period, ALL_SENSORS,
                                                 send_command_sleep),
                              SET_WORKING_PERIOD, GENERAL_RESPONSE, max_loop_count))
        \/ /\ reader = "SDS011ActiveReader"
           /\ MethodCall("set_working_period", <<period>>,
                   connect(then_query(set_working_period(ser_open(Dev), period,
                                                         ALL_SENSORS,
                                                         send_command_sleep),
                                      SET_WORKING_PERIOD, GENERAL_RESPONSE,
                                      max_loop_count)))

\* SDS011QueryReader.get_firmware_version
get_firmware_version ==
    /\ reader = "SDS011QueryReader"
    /\ MethodCall("get_firmware_version", <<>>,
            then_query(send_command(Dev, request_firmware_version_cmd(ALL_SENSORS),
                                    send_command_sleep),
                       CHECK_FIRMWARE_VERSION, GENERAL_RESPONSE, max_loop_count))

(***************************************************************************)
(* SpecSession: an SDS011QueryReader or an SDS011ActiveReader is built     *)
(* over the emulator and used.  The device keeps the reporting mode and    *)
(* the sleep state it was left in, so the session starts from any of them. *)
(***************************************************************************)
InitSession ==
    /\ ser = "emulator"
    /\ response_buffer = <<>>
    /\ query_mode \in ReportingMode
    /\ sleep_state \in SleepState
    /\ device_id = EmulatorInit.device_id
    /\ working_period = EmulatorInit.working_period
    /\ seconds = 0
    /\ is_open = TRUE
    /\ reader = "none"
    /\ max_loop_count = DEFAULT_MAX_LOOP_COUNT
    /\ send_command_sleep \in {0, 1}
    /\ last = NoCall

NextSession ==
    \/ SDS011QueryReader_init \/ SDS011ActiveReader_init
    \/ query \/ get_reporting_mode \/ get_sleep_state \/ sleep \/ wake
    \/ session_set_device_id \/ get_working_period \/ session_set_working_period
    \/ get_firmware_version
    \/ Tick

SpecSession == InitSession /\ [][NextSession]_vars

(***************************************************************************)
(* SpecIdle: the session readers over an emulator that was created up to   *)
(* MaxIdle seconds before the reader is built; in ACTIVE mode it has one   *)
(* query response for every second that passed.                            *)
(***************************************************************************)
InitIdle ==
    /\ ser = "emulator"
    /\ response_buffer = <<>>
    /\ query_mode \in ReportingMode
    /\ sleep_state \in SleepState
    /\ device_id = EmulatorInit.device_id
    /\ working_period = EmulatorInit.working_period
    /\ seconds \in 0..MaxIdle
    /\ is_open = TRUE
    /\ reader = "none"
    /\ max_loop_count = DEFAULT_MAX_LOOP_COUNT
    /\ send_command_sleep = 0
    /\ last = NoCall

\* The clock stands still while the calls are made.
NextIdle ==
    \/ SDS011QueryReader_init \/ SDS011ActiveReader_init
    \/ query
    \/ get_reporting_mode \/ get_sleep_state
    \/ sleep \/ wake
    \/ session_set_device_id
    \/ get_working_period \/ session_set_working_period
    \/ get_firmware_version

SpecIdle == InitIdle /\ [][NextIdle]_vars

(***************************************************************************)
(* SpecStream: an SDS011Reader over a scripted stream.  The script is      *)
(* written first, chunk by chunk, then the reader's methods are called.    *)
(***************************************************************************)
\* A 10-byte string from its head, response class, first payload byte, the
\* amount its checksum byte is off by, and its tail.
Frame(head, class, code, off, tail) ==
    LET payload == <<code, 1, 0, 0, 1, 1>>
    IN <<head, class>> \o payload \o <<(SumBytes(payload) + off) % 256, tail>>

\* The chunks a script is made of: three sound frames, frames with a wrong
\* head, tail or checksum, and a short read.
Chunks ==
    {Frame(HEAD, QUERY_RESPONSE, 229, 0, TAIL),
     Frame(HEAD, GENERAL_RESPONSE, SET_SLEEP, 0, TAIL),
     Frame(HEAD, GENERAL_RESPONSE, SET_WORKING_PERIOD, 0, TAIL),
     Frame(171, GENERAL_RESPONSE, SET_SLEEP, 0, TAIL),
     Frame(HEAD, QUERY_RESPONSE, 229, 0, 172),
     Frame(HEAD, GENERAL_RESPONSE, SET_SLEEP, 1, TAIL),
     Frame(HEAD, 1, 1, 1, TAIL),
     <<HEAD, 1, 1, 1, 1, 1>>}

Script ==
    /\ last.op = "none"
    /\ Len(response_buffer) < MaxStream
    /\ \E chunk \in Chunks : response_buffer' = Append(response_buffer, chunk)
    /\ UNCHANGED <<ser, query_mode, device_id, sleep_state, working_period,
                   seconds, is_open, reader, max_loop_count,
                   send_command_sleep, last>>

InitStream ==
    /\ ser = "stream"
    /\ response_buffer = <<>>
    /\ query_mode = EmulatorInit.query_mode
    /\ device_id = EmulatorInit.device_id
    /\ sleep_state = EmulatorInit.sleep_state
    /\ working_period = EmulatorInit.working_period
    /\ seconds = 0
    /\ is_open = TRUE
    /\ reader = "SDS011Reader"
    /\ max_loop_count \in 1..MaxLoop
    /\ send_command_sleep = 0
    /\ last = NoCall

\* The methods the tests call on a scripted stream: the reads, the mode
\* switches and safe_wake.
NextStream ==
    \/ Script \/ QueryNext
    \/ set_active_mode \/ set_query_mode \/ safe_wake_call

SpecStream == InitStream /\ [][NextStream]_vars

(***************************************************************************)
(* SpecParse: _parse_read_response, _parse_query_response, _calc_checksum  *)
(* and _cmd_checksum applied to byte strings.                              *)
(***************************************************************************)
ParseInputs ==
    {Frame(head, class, code, off, tail) :
        head \in {HEAD, 171}, class \in {QUERY_RESPONSE, GENERAL_RESPONSE, 1},
        code \in {SET_REPORTING_MODE, QUERY, SET_SLEEP}, off \in {0, 1},
        tail \in {TAIL, 172}}
    \cup {<<>>, <<HEAD, 1, 1, 1, 1, 1>>}

parse_read_response_call ==
    \E data \in ParseInputs, command_code \in Command, response_type \in ResponseType :
        /\ last' = [NoCall EXCEPT
                      !.op = "_parse_read_response",
                      !.arg = <<data, command_code, response_type>>,
                      !.outcome = parse_read_response(data, command_code,
                                                      response_type)]
        /\ UNCHANGED <<ser, response_buffer, query_mode, device_id, sleep_state,
                       working_period, seconds, is_open, reader,
                       max_loop_count, send_command_sleep>>

\* Query responses with a right checksum, the one the emulator sends among
\* them, and the byte strings _parse_read_response is applied to.
QueryInputs ==
    {Frame(HEAD, QUERY_RESPONSE, lo, 0, TAIL) : lo \in {0, 1, 229, 255}}
    \cup {<<HEAD, QUERY_RESPONSE, a, b, c, d, 1, 1, (a + b + c + d + 2) % 256, TAIL>> :
             a \in {0, 229}, b \in {0, 16}, c \in {1, 191}, d \in {20, 255}}
    \cup ParseInputs

parse_query_response_call ==
    \E data \in QueryInputs :
        /\ last' = [NoCall EXCEPT
                      !.op = "_parse_query_response",
                      !.arg = <<data>>,
                      !.outcome = parse_query_response(data).outcome,
                      !.response = parse_query_response(data).response]
        /\ UNCHANGED <<ser, response_buffer, query_mode, device_id, sleep_state,
                       working_period, seconds, is_open, reader,
                       max_loop_count, send_command_sleep>>

\* Byte strings whose sums pass 255, a response payload and the 9 bytes that
\* make 15 with it among them.
ChecksumInputs ==
    {<<>>, <<255>>, <<1, 2>>, <<229, 16, 191, 20, 1, 1>>,
     <<255, 255, 255, 255, 255, 255>>, <<0, 0, 0, 0, 0, 0, 0, 255, 255>>}

\* _calc_checksum applied to two byte strings and to the two put together
calc_checksum_call ==
    \E a \in ChecksumInputs, b \in ChecksumInputs :
        /\ last' = [NoCall EXCEPT
                      !.op = "_calc_checksum",
                      !.arg = <<a, b>>,
                      !.response = <<calc_checksum(a), calc_checksum(b),
                                     calc_checksum(a \o b)>>]
        /\ UNCHANGED <<ser, response_buffer, query_mode, device_id, sleep_state,
                       working_period, seconds, is_open, reader,
                       max_loop_count, send_command_sleep>>

\* SDS011Reader._cmd_checksum applied to a byte string, with its length check
cmd_checksum_call ==
    \E a \in ChecksumInputs \cup CommandBodies, b \in ChecksumInputs :
        /\ last' = [NoCall EXCEPT
                      !.op = "_cmd_checksum",
                      !.arg = <<a \o b>>,
                      !.outcome = IF Len(a \o b) # 15 THEN "AttributeError"
                                  ELSE "ok",
                      !.response = IF Len(a \o b) # 15 THEN <<>>
                                   ELSE <<cmd_checksum(a \o b)>>]
        /\ UNCHANGED <<ser, response_buffer, query_mode, device_id, sleep_state,
                       working_period, seconds, is_open, reader,
                       max_loop_count, send_command_sleep>>

NextParse ==
    \/ parse_read_response_call \/ parse_query_response_call
    \/ calc_checksum_call \/ cmd_checksum_call

SpecParse == InitStream /\ [][NextParse]_vars

(***************************************************************************)
(* SpecActive: an SDS011Reader over the emulator left in its factory       *)
(* state, ACTIVE and awake, with every max_loop_count up to MaxLoop.       *)
(***************************************************************************)
InitActive ==
    /\ ser = "emulator"
    /\ response_buffer = EmulatorInit.response_buffer
    /\ query_mode = EmulatorInit.query_mode
    /\ device_id = EmulatorInit.device_id
    /\ sleep_state = EmulatorInit.sleep_state
    /\ working_period = EmulatorInit.working_period
    /\ seconds = EmulatorInit.seconds
    /\ is_open = EmulatorInit.is_open
    /\ reader = "SDS011Reader"
    /\ max_loop_count \in 1..MaxLoop
    /\ send_command_sleep = 0
    /\ last = NoCall

NextActive ==
    \/ set_working_period_call \/ query_working_period
    \/ request_firmware_version \/ query_firmware_version
    \/ query_data
    \/ Tick

SpecActive == InitActive /\ [][NextActive]_vars

(***************************************************************************)
(* SpecQuerying: an SDS011Reader over the emulator in QUERYING mode, awake *)
(* and with nothing unread, as it is once set_query_mode() was called and  *)
(* its answer was read.                                                    *)
(***************************************************************************)
InitQuerying ==
    /\ ser = "emulator"
    /\ response_buffer = EmulatorInit.response_buffer
    /\ query_mode = QUERYING
    /\ device_id = EmulatorInit.device_id
    /\ sleep_state = EmulatorInit.sleep_state
    /\ working_period = EmulatorInit.working_period
    /\ seconds = EmulatorInit.seconds
    /\ is_open = EmulatorInit.is_open
    /\ reader = "SDS011Reader"
    /\ max_loop_count \in 1..MaxLoop
    /\ send_command_sleep = 0
    /\ last = NoCall

\* The methods that write a request and set nothing.
RequestNext ==
    \/ request_data \/ request_reporting_mode \/ request_sleep_state
    \/ request_working_period \/ request_firmware_version

NextQuerying == RequestNext \/ QueryNext

SpecQuerying == InitQuerying /\ [][NextQuerying]_vars

(***************************************************************************)
(* Vocabulary of the properties.                                           *)
(***************************************************************************)
\* A 10-byte frame with the right head, tail and checksum.
WellFormed(f) ==
    /\ Len(f) = 10
    /\ f[1] = 170
    /\ f[10] = 171
    /\ f[9] = (f[3] + f[4] + f[5] + f[6] + f[7] + f[8]) % 256

\* The frame is the one awaited.
Verifies(f, command, response_type) ==
    /\ WellFormed(f)
    /\ f[2] = response_type
    /\ (response_type = 192 \/ f[3] = command)

\* The frame fails only by its response class or its command code.
Unsolicited(f, command, response_type) ==
    WellFormed(f) /\ ~Verifies(f, command, response_type)

\* A 10-byte frame with a wrong head, tail or checksum.
Corrupt(f) == Len(f) = 10 /\ ~WellFormed(f)

\* The first k chunks of the buffer are unsolicited frames.
SkipsFirst(k, command, response_type) ==
    /\ Len(response_buffer) >= k
    /\ \A i \in 1..k : Unsolicited(response_buffer[i], command, response_type)

\* The query_* methods with the command and response class each awaits.
ScanOps ==
    {<<"query_data", 4, 192>>, <<"query_reporting_mode", 2, 197>>,
     <<"query_sleep_state", 6, 197>>, <<"query_device_id", 5, 197>>,
     <<"query_working_period", 8, 197>>, <<"query_firmware_version", 7, 197>>}

ScanOpNames == {s[1] : s \in ScanOps}

\* This step is a call of the query_* method of the given name.
IsScanNamed(name) ==
    /\ last'.op = name
    /\ CASE name = "query_data" -> query_data
         [] name = "query_reporting_mode" -> query_reporting_mode
         [] name = "query_sleep_state" -> query_sleep_state
         [] name = "query_device_id" -> query_device_id
         [] name = "query_working_period" -> query_working_period
         [] name = "query_firmware_version" -> query_firmware_version

\* This step is a call of the query_* method s.
IsScan(s) == IsScanNamed(s[1])

\* The call was made with an argument set_working_period or set_device_id
\* turns down.
InvalidArgument(call) ==
    \/ call.op = "set_working_period" /\ (call.arg[1] < 0 \/ call.arg[1] > 30)
    \/ call.op = "set_device_id" /\ (Len(call.arg[1]) # 2 \/ Len(call.arg[2]) # 2)

C2_MissingAfterMaxLoopCount ==
    [][\A s \in ScanOps :
          (SkipsFirst(max_loop_count, s[2], s[3]) /\ IsScan(s))
          => last'.outcome = "MissingResponseException"]_vars

(***************************************************************************)
(* C3.  A MissingResponseException carries iteration_count =               *)
(* max_loop_count and the wire value of the command that was awaited.      *)
(***************************************************************************)
C3_MissingResponseFields ==
    last.outcome = "MissingResponseException"
    => /\ last.iteration_count = max_loop_count
       /\ \E s \in ScanOps \cup {<<"safe_wake", 6, 197>>} :
             last.op = s[1] /\ last.expected_command = s[2]

C3_Witness ==
    /\ last.outcome = "MissingResponseException"
    /\ last.op = "query_working_period"
    /\ max_loop_count = 2

(***************************************************************************)
(* C4.  Corruption is never retried: when, after k <= max_loop_count       *)
(* skipped frames, the next 10-byte frame has a wrong head, tail or        *)
(* checksum, the scan raises IncorrectWrapperException (head or tail) or   *)
(* ChecksumFailedException at once: k + 1 reads, and the frames behind the *)
(* corrupt one stay in the stream.                                         *)
(***************************************************************************)
C4_CorruptionNotRetried ==
    [][\A s \in ScanOps : \A k \in 0..max_loop_count :
          (/\ SkipsFirst(k, s[2], s[3])
           /\ Len(response_buffer) > k
           /\ Corrupt(response_buffer[k + 1])
           /\ IsScan(s))
          => /\ last'.outcome =
                   IF response_buffer[k + 1][1] # 170
                      \/ response_buffer[k + 1][10] # 171
                   THEN "IncorrectWrapperException"
                   ELSE "ChecksumFailedException"
             /\ last'.reads = k + 1
             /\ response_buffer' = SubSeq(response_buffer, k + 2,
                                          Len(response_buffer))]_vars

\* A scan has failed on a corrupt frame behind a skipped one, with a frame
\* left unread behind it.
C4_Witness ==
    /\ last.op \in ScanOpNames
    /\ last.outcome \in {"IncorrectWrapperException", "ChecksumFailedException"}
    /\ last.reads = 2
    /\ Len(response_buffer) >= 1

(***************************************************************************)
(* C5.  _verify_read_response checks head, tail, checksum, response class  *)
(* and command code in this order and raises for the first check that      *)
(* fails: for every 10-byte string the exception is that of the earliest   *)
(* failing check.                                                          *)
(***************************************************************************)
\* The checks a frame fails, by their place in the order.
FailedChecks(f, command, response_type) ==
    {i \in 1..5 :
        \/ i = 1 /\ f[1] # 170
        \/ i = 2 /\ f[10] # 171
        \/ i = 3 /\ f[9] # (f[3] + f[4] + f[5] + f[6] + f[7] + f[8]) % 256
        \/ i = 4 /\ f[2] # response_type
        \/ i = 5 /\ response_type # 192 /\ f[3] # command}

ExceptionOfCheck ==
    <<"IncorrectWrapperException", "IncorrectWrapperException",
      "ChecksumFailedException", "IncorrectCommandException",
      "IncorrectCommandCodeException">>

C5_FirstFailingCheck ==
    (last.op = "_parse_read_response" /\ Len(last.arg[1]) = 10)
    => LET failed == FailedChecks(last.arg[1], last.arg[2], last.arg[3])
       IN IF failed = {} THEN last.outcome = "ok"
          ELSE \E i \in failed :
                  /\ \A j \in failed : i <= j
                  /\ last.outcome = ExceptionOfCheck[i]

\* A frame with a bad checksum and a wrong response class has been verified.
C5_Witness ==
    /\ last.op = "_parse_read_response"
    /\ Len(last.arg[1]) = 10
    /\ {3, 4} \subseteq FailedChecks(last.arg[1], last.arg[2], last.arg[3])
    /\ last.outcome = "ChecksumFailedException"

(***************************************************************************)
(* C6.  Low-level reader, device asleep: the read that follows a request   *)
(* other than a sleep-state command raises IncompleteReadException.        *)
(***************************************************************************)
\* The requests that are not sleep-state commands, each with the query_*
\* method that reads its response.
RequestPairs ==
    {<<"request_data", "query_data">>,
     <<"request_reporting_mode", "query_reporting_mode">>,
     <<"set_device_id", "query_device_id">>,
     <<"request_working_period", "query_working_period">>,
     <<"set_working_period", "query_working_period">>,
     <<"request_firmware_version", "query_firmware_version">>}

\* This step is a request of the low-level reader that is not a sleep-state
\* command.
NonSleepRequestStep ==
    \/ last'.op = "request_data" /\ request_data
    \/ last'.op = "request_reporting_mode" /\ request_reporting_mode
    \/ last'.op = "set_active_mode" /\ set_active_mode
    \/ last'.op = "set_query_mode" /\ set_query_mode
    \/ last'.op = "set_device_id" /\ set_device_id_call
    \/ last'.op = "request_working_period" /\ request_working_period
    \/ last'.op = "set_working_period" /\ set_working_period_call
    \/ last'.op = "request_firmware_version" /\ request_firmware_version

\* The claim as it stands: asleep, whatever was requested and read before,
\* the read after the request raises IncompleteReadException.
C6_ReadAfterRequestIncomplete ==
    [][\A p \in RequestPairs :
          (/\ sleep_state = SLEEP
           /\ last.op = p[1] /\ last.outcome = "ok"
           /\ IsScanNamed(p[2]))
          => last'.outcome = "IncompleteReadException"]_vars

\* Amended: asleep, a request that is not a sleep-state command puts nothing
\* into the response buffer, and a read that finds no frame left there
\* raises IncompleteReadException without returning anything; so the read
\* after the request fails whenever no frame was unread when the request
\* was written.
C6_AsleepRequestUnanswered ==
    [][/\ (sleep_state = SLEEP /\ NonSleepRequestStep)
          => response_buffer' = response_buffer
       /\ \A s \in ScanOps :
             (sleep_state = SLEEP /\ response_buffer = <<>> /\ IsScan(s))
             => /\ last'.outcome = "IncompleteReadException"
                /\ last'.response = <<>>
                /\ last'.reads = 1
                /\ response_buffer' = <<>>]_vars

\* A read has failed on the sleeping device, which is in ACTIVE mode.
C6_Witness ==
    /\ sleep_state = SLEEP
    /\ query_mode = ACTIVE
    /\ last.op = "query_working_period"
    /\ last.outcome = "IncompleteReadException"
    /\ last.reads = 1

(***************************************************************************)
(* C7.  SDS011QueryReader and SDS011ActiveReader: once sleep() has         *)
(* returned, every call that is not a sleep-state command raises           *)
(* IncompleteReadException until wake() is called.                         *)
(***************************************************************************)
\* The device of the session sleeps and nothing is left to read.
Quiet == reader # "none" /\ sleep_state = SLEEP /\ response_buffer = <<>>

\* This step is a session call that is not a sleep-state command.
NonSleepSessionStep ==
    \/ query \/ get_reporting_mode \/ session_set_device_id \/ get_working_period
    \/ session_set_working_period \/ get_firmware_version

\* The claim as it stands, for the call made right after sleep() returned.
C7_IncompleteAfterSleep ==
    [][(last.op = "sleep" /\ last.outcome = "ok" /\ NonSleepSessionStep)
          => last'.outcome = "IncompleteReadException"]_vars

\* Amended: the device is quiet when sleep() has returned, stays quiet
\* through every call but wake(), and while it is quiet every call that is
\* not a sleep-state command raises IncompleteReadException, or
\* AttributeError when its argument is invalid.
C7_AsleepUntilWake ==
    [][/\ (last'.op = "sleep" /\ last'.outcome = "ok") => Quiet'
       /\ (Quiet /\ ~wake) => Quiet'
       /\ (Quiet /\ NonSleepSessionStep)
          => last'.outcome = IF InvalidArgument(last')
                             THEN "AttributeError"
                             ELSE "IncompleteReadException"]_vars

\* query() of an SDS011ActiveReader has failed on the sleeping device.
C7_Witness ==
    /\ reader = "SDS011ActiveReader"
    /\ sleep_state = SLEEP
    /\ last.op = "query"
    /\ last.outcome = "IncompleteReadException"

(***************************************************************************)
(* C8.  While the device sleeps no command changes its working period,     *)
(* reporting mode or device id, and neither do the commands that put it to *)
(* sleep and wake it: after the wake they are what they were before the    *)
(* sleep.                                                                  *)
(***************************************************************************)
C8_SleepKeepsSettings ==
    [][(sleep_state = SLEEP \/ sleep_state' = SLEEP)
          => UNCHANGED <<working_period, query_mode, device_id>>]_vars

\* set_working_period(30) was written to the sleeping device, whose working
\* period is still 0.
C8_Witness ==
    /\ sleep_state = SLEEP
    /\ last.op = "set_working_period"
    /\ last.arg = <<30>>
    /\ Len(last.writes) = 1
    /\ working_period = 0

(***************************************************************************)
(* C9.  set_working_period accepts 0..30: it writes one SET_WORKING_PERIOD *)
(* frame for such a value, and for any other raises AttributeError without *)
(* a write or a read.                                                      *)
(***************************************************************************)
C9_WorkingPeriodRange ==
    last.op = "set_working_period"
    => IF last.arg[1] >= 0 /\ last.arg[1] <= 30
       THEN /\ last.outcome = "ok"
            /\ Len(last.writes) = 1
            /\ Len(last.writes[1]) = 19
            /\ last.writes[1][3] = 8
            /\ last.writes[1][4] = 1
            /\ last.writes[1][5] = last.arg[1]
            /\ last.reads = 0
       ELSE /\ last.outcome = "AttributeError"
            /\ last.writes = <<>>
            /\ last.reads = 0

\* set_working_period(30) has written its frame.
C9_Witness ==
    /\ last.op = "set_working_period"
    /\ last.arg = <<30>>
    /\ last.outcome = "ok"
    /\ Len(last.writes) = 1

(***************************************************************************)
(* C10.  set_device_id with a new id or a target id that is not 2 bytes    *)
(* long raises AttributeError before any I/O: nothing is written or read   *)
(* and the device keeps its id.                                            *)
(***************************************************************************)
C10_DeviceIdLength ==
    [][(last'.op = "set_device_id" /\ InvalidArgument(last') /\ set_device_id_call)
          => /\ last'.outcome = "AttributeError"
             /\ last'.writes = <<>>
             /\ last'.reads = 0
             /\ UNCHANGED <<device_id, response_buffer>>]_vars

\* set_device_id was called with ids of 1 and 3 bytes, 4 bytes together.
C10_Witness ==
    /\ last.op = "set_device_id"
    /\ Len(last.arg[1]) = 1
    /\ Len(last.arg[2]) = 3
    /\ last.outcome = "AttributeError"

C12_WritesWellFormed ==
    /\ \A i \in 1..Len(last.writes) :
          LET w == last.writes[i]
          IN /\ Len(w) = 19
             /\ w[1] = 170 /\ w[2] = 180 /\ w[19] = 171
             /\ w[18] = SumBytes([k \in 1..15 |-> w[k + 2]]) % 256
    /\ (last.op = "_send_command" /\ Len(last.arg[1]) # 15)
       => /\ last.outcome = "AttributeError"
          /\ last.calls = <<>>

\* _send_command was called with a body of 16 bytes.
C12_Witness ==
    /\ last.op = "_send_command"
    /\ Len(last.arg[1]) = 16
    /\ last.outcome = "AttributeError"

(***************************************************************************)
(* C13.  set_active_mode and set_query_mode write the command and then,    *)
(* before they return, close the serial device and open it again.          *)
(***************************************************************************)
C13_ModeSetReopensPort ==
    last.op \in {"set_active_mode", "set_query_mode"}
    => /\ last.outcome = "ok"
       /\ \E i, j \in 1..Len(last.calls) :
             /\ i < j
             /\ last.calls[1] = "write"
             /\ last.calls[i] = "close"
             /\ last.calls[j] = "open"

(***************************************************************************)
(* C14.  set_active_mode and set_query_mode return normally when the next  *)
(* read of the serial device would give nothing, fewer than 10 bytes, or a *)
(* frame of another response class or command code.                        *)
(***************************************************************************)
\* This step is a call of set_active_mode or set_query_mode.
ModeSetStep ==
    \/ last'.op = "set_active_mode" /\ set_active_mode
    \/ last'.op = "set_query_mode" /\ set_query_mode

\* What the next read(10) of the scripted stream returns.
NextRead == IF response_buffer = <<>> THEN <<>> ELSE Head(response_buffer)

C14_ModeSetToleratesUnconfirmed ==
    [][((Len(NextRead) < 10 \/ Unsolicited(NextRead, 2, 197)) /\ ModeSetStep)
          => last'.outcome = "ok"]_vars

\* set_query_mode has returned with a short read pending.
C14_Witness ==
    /\ ser = "stream"
    /\ last.op = "set_query_mode"
    /\ last.outcome = "ok"
    /\ Len(NextRead) \in 1..9

(***************************************************************************)
(* C15.  set_active_mode and set_query_mode read the mode back: when the   *)
(* frame pending after the switch has a wrong head, tail or checksum they  *)
(* raise IncorrectWrapperException or ChecksumFailedException.             *)
(***************************************************************************)
C15_ModeSetPropagatesCorruption ==
    [][(Corrupt(NextRead) /\ ModeSetStep)
          => last'.outcome \in {"IncorrectWrapperException",
                                "ChecksumFailedException"}]_vars

(***************************************************************************)
(* C16.  safe_wake writes one WAKE command and then reads exactly once.    *)
(***************************************************************************)
C16_SafeWakeOneRead ==
    last.op = "safe_wake" => last.calls = <<"write", "read">>

(***************************************************************************)
(* C17.  safe_wake returns normally whatever the serial device returns     *)
(* after the WAKE command.                                                 *)
(***************************************************************************)
C17_SafeWakeNeverRaises ==
    last.op = "safe_wake" => last.outcome = "ok"

(***************************************************************************)
(* C18.  Whatever reporting mode and sleep state the device is in, the     *)
(* construction of an SDS011QueryReader succeeds and leaves it awake in    *)
(* QUERYING mode, and get_reporting_mode() then returns QUERYING.          *)
(***************************************************************************)
C18_QueryReaderConstruction ==
    [][/\ (last'.op = "SDS011QueryReader" /\ SDS011QueryReader_init)
          => /\ last'.outcome = "ok"
             /\ reader' = "SDS011QueryReader"
             /\ sleep_state' = WAKE
             /\ query_mode' = QUERYING
       /\ (last.op = "SDS011QueryReader" /\ last'.op = "get_reporting_mode"
              /\ get_reporting_mode)
          => /\ last'.outcome = "ok"
             /\ last'.response[3] = 2
             /\ last'.response[5] = QUERYING]_vars

\* get_reporting_mode() of a reader built over a device in ACTIVE mode has
\* returned QUERYING, past the sample the device had put out.
C18_Witness ==
    /\ reader = "SDS011QueryReader"
    /\ last.op = "get_reporting_mode"
    /\ last.outcome = "ok"
    /\ last.response[5] = QUERYING
    /\ last.reads > 1

(***************************************************************************)
(* C19.  Whatever reporting mode and sleep state the device is in, the     *)
(* construction of an SDS011ActiveReader succeeds and leaves it in ACTIVE  *)
(* mode with the serial device closed; query() then returns a query        *)
(* response and writes nothing.                                            *)
(***************************************************************************)
C19_ActiveReaderConstruction ==
    [][/\ (last'.op = "SDS011ActiveReader" /\ SDS011ActiveReader_init)
          => /\ last'.outcome = "ok"
             /\ reader' = "SDS011ActiveReader"
             /\ query_mode' = ACTIVE
             /\ ~is_open'
       /\ (last.op = "SDS011ActiveReader" /\ last'.op = "query" /\ query)
          => /\ last'.outcome = "ok"
             /\ last'.response # <<>>
             /\ last'.response[2] = 192
             /\ last'.writes = <<>>]_vars

\* query() of a new SDS011ActiveReader has returned a sample.
C19_Witness ==
    /\ reader = "SDS011ActiveReader"
    /\ last.op = "query"
    /\ last.outcome = "ok"
    /\ last.writes = <<>>
    /\ last.response[2] = 192
    /\ query_mode = ACTIVE

(***************************************************************************)
(* C20.  SDS011ActiveReader: the serial device is closed between the       *)
(* calls, and each of query, sleep, wake, set_device_id and                *)
(* set_working_period opens it once, first, and closes it once, last,      *)
(* however the call ends.                                                  *)
(***************************************************************************)
ActiveReaderOps == {"query", "sleep", "wake", "set_device_id", "set_working_period"}

C20_ActiveReaderScoping ==
    reader = "SDS011ActiveReader"
    => /\ ~is_open
       /\ last.op \in ActiveReaderOps
          => /\ Len(last.calls) >= 2
             /\ last.calls[1] = "open"
             /\ last.calls[Len(last.calls)] = "close"
             /\ Cardinality({i \in 1..Len(last.calls) :
                                last.calls[i] \in {"open", "close"}}) = 2

\* set_working_period(31) of an SDS011ActiveReader has raised
\* AttributeError between an open and a close.
C20_Witness ==
    /\ reader = "SDS011ActiveReader"
    /\ last.op = "set_working_period"
    /\ last.outcome = "AttributeError"
    /\ last.calls = <<"open", "close">>
    /\ ~is_open

(***************************************************************************)
(* C21.  sleep() of SDS011ActiveReader sends the sleep command and then    *)
(* reads 10 bytes at a time until a read returns fewer than 10: the last   *)
(* read of the call returns fewer than 10 bytes.                           *)
(***************************************************************************)
C21_SleepDrains ==
    (reader = "SDS011ActiveReader" /\ last.op = "sleep")
    => /\ last.read_sizes # <<>>
       /\ last.read_sizes[Len(last.read_sizes)] < 10

(***************************************************************************)
(* C22.  SDS011QueryReader and SDS011ActiveReader: the query() that        *)
(* follows wake() returns a query response, whatever was called before the *)
(* wake() (a sleep() and failed query() calls included); wake() of         *)
(* SDS011QueryReader returns the state WAKE.                               *)
(***************************************************************************)
C22_WakeThenQuery ==
    [][(last.op = "wake" /\ last'.op = "query" /\ query)
          => /\ last.outcome = "ok"
             /\ (reader = "SDS011QueryReader" => last.response[5] = WAKE)
             /\ last'.outcome = "ok"
             /\ last'.response[2] = QUERY_RESPONSE]_vars

\* wake() has woken the device, and the query() that can follow returns.
C22_Witness ==
    /\ reader = "SDS011ActiveReader"
    /\ last.op = "wake"
    /\ last.outcome = "ok"
    /\ sleep_state = WAKE
    /\ Len(last.read_sizes) = 2
    /\ ENABLED (query /\ last'.outcome = "ok")

(***************************************************************************)
(* C23.  SDS011Reader, device awake: the reporting mode read after         *)
(* set_query_mode or set_active_mode (by request_reporting_mode and        *)
(* query_reporting_mode, in ACTIVE mode by query_reporting_mode alone) is  *)
(* the mode that was set last.                                             *)
(***************************************************************************)
C23_ModeReadIsModeSet ==
    [][(/\ last'.op = "query_reporting_mode"
        /\ sleep_state = WAKE
        /\ \/ last.op = "request_reporting_mode"
           \/ last.op = "set_active_mode"
        /\ last.outcome = "ok"
        /\ query_reporting_mode)
          => /\ last'.outcome = "ok"
             /\ last'.response[5] = query_mode]_vars

(***************************************************************************)
(* C24.  SDS011QueryReader, whatever was called before: sleep() returns    *)
(* the state SLEEP, wake() returns the state WAKE, and get_sleep_state()   *)
(* returns the sleep state the device has when it is called.               *)
(***************************************************************************)
C24_SleepStateReported ==
    [][/\ (reader = "SDS011QueryReader" /\ last'.op = "sleep" /\ sleep)
          => /\ last'.outcome = "ok"
             /\ last'.response[5] = SLEEP
             /\ sleep_state' = SLEEP
       /\ (reader = "SDS011QueryReader" /\ last'.op = "wake" /\ wake)
          => /\ last'.outcome = "ok"
             /\ last'.response[5] = WAKE
             /\ sleep_state' = WAKE
       /\ (last'.op = "get_sleep_state" /\ get_sleep_state)
          => /\ last'.outcome = "ok"
             /\ last'.response[5] = sleep_state
             /\ sleep_state' = sleep_state]_vars

\* get_sleep_state() has reported SLEEP on the sleeping device.
C24_Witness ==
    /\ reader = "SDS011QueryReader"
    /\ last.op = "get_sleep_state"
    /\ last.outcome = "ok"
    /\ last.response[5] = SLEEP
    /\ sleep_state = SLEEP

(***************************************************************************)
(* C25.  SDS011Reader, device awake and in ACTIVE mode:                    *)
(* query_working_period after set_working_period(n) returns the interval   *)
(* n, and query_firmware_version after request_firmware_version returns    *)
(* the firmware response, when fewer than max_loop_count unsolicited query *)
(* responses come before the response to the command.                      *)
(***************************************************************************)
\* The unread frames before the last one, which is the response to the
\* command written last.
Preceding == SubSeq(response_buffer, 1, Len(response_buffer) - 1)

\* How many of them are query responses.
UnsolicitedPreceding ==
    Cardinality({i \in DOMAIN Preceding : Preceding[i][2] = QUERY_RESPONSE})

\* The device is awake in ACTIVE mode and the last call wrote the command.
ActiveAfter(op) ==
    /\ sleep_state = WAKE
    /\ query_mode = ACTIVE
    /\ last.op = op
    /\ last.outcome = "ok"

\* query_working_period returns the interval set_working_period was called
\* with.
ReturnsInterval ==
    /\ last'.outcome = "ok"
    /\ last'.response[3] = SET_WORKING_PERIOD
    /\ last'.response[5] = last.arg[1]

\* query_firmware_version returns the firmware response.
ReturnsFirmware ==
    /\ last'.outcome = "ok"
    /\ last'.response[3] = CHECK_FIRMWARE_VERSION
    /\ SubSeq(last'.response, 4, 6) = <<firmware_year, firmware_month, firmware_day>>

ChunkAfter(k) ==
    IF Len(response_buffer) > k THEN response_buffer[k + 1] ELSE <<>>

C26_ShortReadEndsScan ==
    [][\A s \in ScanOps : \A k \in 0..max_loop_count :
          (/\ SkipsFirst(k, s[2], s[3])
           /\ Len(ChunkAfter(k)) < 10
           /\ IsScan(s))
          => /\ last'.outcome = "IncompleteReadException"
             /\ last'.response = <<>>
             /\ last'.reads = k + 1
             /\ last'.read_sizes[k + 1] = Len(ChunkAfter(k))
             /\ response_buffer' = SubSeq(response_buffer, k + 2,
                                          Len(response_buffer))]_vars

\* A scan has failed on a chunk of 6 bytes behind a skipped frame, with a
\* frame left unread behind it.
C26_Witness ==
    /\ ser = "stream"
    /\ last.op \in ScanOpNames
    /\ last.outcome = "IncompleteReadException"
    /\ last.read_sizes = <<10, 6>>
    /\ Len(response_buffer) >= 1

(***************************************************************************)
(* C27.  _parse_query_response decodes a query response as                 *)
(* pm25 = (payload[0] + 256 * payload[1]) / 10 and                         *)
(* pm10 = (payload[2] + 256 * payload[3]) / 10, with the device id of      *)
(* payload[4:6]: the payload E5 10 BF 14 01 01 gives 432.5, 531.1 and the  *)
(* id 01 01.  Both values are compared in tenths.                          *)
(***************************************************************************)
C27_QueryDecoding ==
    (last.op = "_parse_query_response" /\ last.outcome = "ok")
    => LET data == last.arg[1]
       IN /\ last.response[1] = data[3] + 256 * data[4]
          /\ last.response[2] = data[5] + 256 * data[6]
          /\ last.response[3] = <<data[7], data[8]>>
          /\ SubSeq(data, 3, 8) = <<229, 16, 191, 20, 1, 1>>
             => last.response = <<4325, 5311, <<1, 1>>>>

\* The payload E5 10 BF 14 01 01 has been decoded.
C27_Witness ==
    /\ last.op = "_parse_query_response"
    /\ last.outcome = "ok"
    /\ SubSeq(last.arg[1], 3, 8) = <<229, 16, 191, 20, 1, 1>>
    /\ last.response = <<4325, 5311, <<1, 1>>>>

(***************************************************************************)
(* C28.  A frame with the right head, tail, checksum and response class:   *)
(* when a query response is awaited its first payload byte is not looked   *)
(* at and it verifies; when a general response is awaited it verifies      *)
(* exactly when its first payload byte is the awaited command, and         *)
(* IncorrectCommandCodeException is raised otherwise.                      *)
(***************************************************************************)
C28_CommandCodeCheck ==
    LET f == last.arg[1]
        command == last.arg[2]
        response_type == last.arg[3]
    IN (last.op = "_parse_read_response" /\ WellFormed(f) /\ f[2] = response_type)
       => last.outcome =
             IF response_type = QUERY_RESPONSE \/ f[3] = command
             THEN "ok" ELSE "IncorrectCommandCodeException"

\* A query response whose first payload byte is not the awaited command has
\* verified.
C28_Witness ==
    /\ last.op = "_parse_read_response"
    /\ WellFormed(last.arg[1])
    /\ last.arg[3] = QUERY_RESPONSE
    /\ last.arg[1][2] = QUERY_RESPONSE
    /\ last.arg[1][3] # last.arg[2]
    /\ last.outcome = "ok"

(***************************************************************************)
(* C29.  One call of _read_until_response makes at most max_loop_count     *)
(* reads of the serial device.                                             *)
(***************************************************************************)
C29_AtMostMaxLoopCountReads ==
    last.op \in ScanOpNames => last.reads <= max_loop_count

(***************************************************************************)
(* C30.  Every call of _read_until_response ends, on a device in ACTIVE    *)
(* mode that has an unsolicited query response for every read as well: it  *)
(* returns a frame or raises after at most max_loop_count + 1 reads, each  *)
(* of which but the last returned a whole frame.                           *)
(***************************************************************************)
C30_ScanEnds ==
    last.op \in ScanOpNames
    => /\ last.reads <= max_loop_count + 1
       /\ Len(last.read_sizes) = last.reads
       /\ \A i \in 1..(last.reads - 1) : last.read_sizes[i] = 10
       /\ last.outcome \in {"ok", "IncompleteReadException",
                            "MissingResponseException"}
       /\ last.outcome = "MissingResponseException"
          => last.reads = max_loop_count + 1

\* A scan for a response that never comes has ended on the stream of
\* unsolicited query responses.
C30_Witness ==
    /\ query_mode = ACTIVE
    /\ sleep_state = WAKE
    /\ last.op = "query_working_period"
    /\ last.outcome = "MissingResponseException"
    /\ last.reads = max_loop_count + 1
    /\ response_buffer = <<>>

(***************************************************************************)
(* C31.  QUERYING mode, device awake: the response to a request is queued  *)
(* behind the responses still unread, so after several requests with no    *)
(* read in between the query for the command of the first request returns  *)
(* the response to that request, and the responses to the later requests   *)
(* stay queued behind it.                                                  *)
(***************************************************************************)
\* The request_* methods with the command and the response class of the
\* response each asks for.
RequestOps ==
    {<<"request_data", 4, 192>>, <<"request_reporting_mode", 2, 197>>,
     <<"request_sleep_state", 6, 197>>, <<"request_working_period", 8, 197>>,
     <<"request_firmware_version", 7, 197>>}

\* This step is a call of the request_* method p.
IsRequest(p) ==
    /\ last'.op = p[1]
    /\ CASE p[1] = "request_data" -> request_data
         [] p[1] = "request_reporting_mode" -> request_reporting_mode
         [] p[1] = "request_sleep_state" -> request_sleep_state
         [] p[1] = "request_working_period" -> request_working_period
         [] p[1] = "request_firmware_version" -> request_firmware_version

QueryReaderOps ==
    {"query", "get_reporting_mode", "get_sleep_state", "sleep", "wake",
     "set_device_id", "get_working_period", "set_working_period",
     "get_firmware_version"}

C32_OwnResponseReturned ==
    (reader = "SDS011QueryReader" /\ last.op \in QueryReaderOps
     /\ last.outcome = "ok")
    => /\ response_buffer = <<>>
       /\ last.op = "get_reporting_mode" => last.response[4] = OP_QUERY

(***************************************************************************)
(* C33.  The device's reporting mode changes only in a call that writes,   *)
(* to the device awake, a SET_REPORTING_MODE command with the operation    *)
(* type SET, and its sleep state only in a call that writes a SET_SLEEP    *)
(* command with the operation type SET; the request_* and query_* methods, *)
(* set_working_period, set_device_id, open and close change neither.       *)
(***************************************************************************)
\* The call of this step wrote the command with operation type SET and the
\* given value.
WroteSet(command, value) ==
    \E i \in DOMAIN last'.writes :
        /\ last'.writes[i][3] = command
        /\ last'.writes[i][4] = OP_SET_MODE
        /\ last'.writes[i][5] = value

\* The calls that set neither the reporting mode nor the sleep state.
NonSettingOps ==
    ScanOpNames \cup {p[1] : p \in RequestOps}
    \cup {"set_working_period", "set_device_id", "open", "close"}

C33_ModeAndSleepFrame ==
    [][/\ query_mode' # query_mode
          => sleep_state = WAKE /\ WroteSet(SET_REPORTING_MODE, query_mode')
       /\ sleep_state' # sleep_state => WroteSet(SET_SLEEP, sleep_state')
       /\ (last' # last /\ last'.op \in NonSettingOps)
          => query_mode' = query_mode /\ sleep_state' = sleep_state]_vars

\* The device was put into QUERYING mode and then to sleep, and a request
\* was written to it since.
C33_Witness ==
    /\ query_mode = QUERYING
    /\ sleep_state = SLEEP
    /\ last.op = "request_reporting_mode"
    /\ last.outcome = "ok"
    /\ Len(last.writes) = 1

(***************************************************************************)
(* C34.  While the device sleeps it emits nothing unsolicited: a read that *)
(* finds nothing unread returns no bytes, in ACTIVE mode too, and the      *)
(* frames a call adds to the response buffer of a device that sleeps       *)
(* before and after it are responses to sleep-state commands.              *)
(***************************************************************************)
\* The frame is a response to a sleep-state command.
SleepResponse(f) == f[2] = GENERAL_RESPONSE /\ f[3] = SET_SLEEP

C34_AsleepEmitsNothing ==
    [][(sleep_state = SLEEP /\ sleep_state' = SLEEP /\ last' # last)
          => /\ (response_buffer = <<>> /\ last'.writes = <<>> /\ last'.reads > 0)
                => last'.read_sizes = <<0>> /\ response_buffer' = <<>>
             /\ (last'.reads = 0 /\ last'.writes # <<>>)
                => /\ Len(response_buffer') >= Len(response_buffer)
                   /\ \A i \in DOMAIN response_buffer' :
                         IF i <= Len(response_buffer)
                         THEN response_buffer'[i] = response_buffer[i]
                         ELSE SleepResponse(response_buffer'[i])]_vars

(***************************************************************************)
(* C35.  SDS011Reader: every request_* method, set_sleep_state, and        *)
(* set_working_period and set_device_id with valid arguments make exactly  *)
(* one write on the serial device and no read, open or close; the query_*  *)
(* methods only read.                                                      *)
(***************************************************************************)
\* The methods that only write a command.
WriteOnlyOps ==
    {p[1] : p \in RequestOps}
    \cup {"set_sleep_state", "set_working_period", "set_device_id"}

C35_OneWriteOrOnlyReads ==
    /\ (last.op \in WriteOnlyOps /\ ~InvalidArgument(last))
       => /\ last.outcome = "ok"
          /\ last.calls = <<"write">>
          /\ Len(last.writes) = 1
          /\ Len(last.writes[1]) = 19
          /\ last.reads = 0
    /\ last.op \in ScanOpNames
       => /\ last.writes = <<>>
          /\ \A i \in DOMAIN last.calls : last.calls[i] = "read"
          /\ Len(last.calls) = last.reads

\* set_device_id has written its command, and nothing else, to a device
\* with a frame unread.
C35_Witness ==
    /\ last.op = "set_device_id"
    /\ last.calls = <<"write">>
    /\ Len(response_buffer) >= 2

(***************************************************************************)
(* C36.  The max_loop_count of 10 that SDS011ActiveReader sets when it is  *)
(* built bounds the scans of its methods: a call that awaits a general     *)
(* response skips at most 10 frames, so it makes at most 11 reads, and a   *)
(* MissingResponseException it raises carries the iteration_count 10.      *)
(***************************************************************************)
\* The SDS011ActiveReader methods that await a general response.
ActiveReaderGeneralOps == {"sleep", "wake", "set_device_id", "set_working_period"}

C36_ActiveReaderScansBoundedByTen ==
    (reader = "SDS011ActiveReader" /\ last.op \in ActiveReaderGeneralOps)
    => /\ last.reads <= ACTIVE_READER_MAX_LOOP_COUNT + 1
       /\ last.outcome = "MissingResponseException"
          => last.iteration_count = ACTIVE_READER_MAX_LOOP_COUNT

(***************************************************************************)
(* C37.  _calc_checksum is the sum of the bytes mod 256: its value is in   *)
(* 0..255, the checksum of a ++ b is (checksum(a) + checksum(b)) mod 256,  *)
(* and _cmd_checksum gives a 15-byte command body the value _calc_checksum *)
(* gives it.                                                               *)
(***************************************************************************)
C37_ChecksumSumMod256 ==
    /\ last.op = "_calc_checksum"
       => /\ \A i \in 1..3 : last.response[i] \in 0..255
          /\ last.response[3] = (last.response[1] + last.response[2]) % 256
          /\ last.arg[2] = <<>> => last.response[3] = last.response[1]
    /\ (last.op = "_cmd_checksum" /\ last.outcome = "ok")
       => /\ Len(last.arg[1]) = 15
          /\ last.response[1] \in 0..255
          /\ last.response[1] = calc_checksum(last.arg[1])

\* The checksums of two strings whose sums are past 255 have been added up.
C37_Witness ==
    /\ last.op = "_calc_checksum"
    /\ last.arg = <<<<255, 255, 255, 255, 255, 255>>, <<0, 0, 0, 0, 0, 0, 0, 255, 255>>>>
    /\ last.response = <<250, 254, 248>>

====
